---- MODULE Spec2Model ----
\* The connection / job-execution core of dbt-bigquery's BigQueryConnectionManager
\* (src/dbt/adapters/bigquery/connections.py): the per-thread job registry,
\* raw_execute, cancel_open, open/close and the retry loop of _retry_and_handle.
EXTENDS Integers, Sequences, FiniteSets, TLC

\* ---------------------------------------------------------------- bounds
MaxRetries == 2
MaxDeadline == 2
MaxJobs == 1
MaxHandles == 2
MaxDigits == 7

\* The clock saturates one unit past the largest deadline: every comparison
\* against a deadline reads the same on the saturated value.
MaxTime == MaxDeadline + 1

\* ---------------------------------------------------------------- values
Threads == {"t1", "t2", "t3"}

\* thread_connections is a dict: iteration follows insertion order.
ThreadOrder == <<"t1", "t2", "t3">>

MainThread == "t1"

None == {}

Some(v) == {v}

The(o) == CHOOSE v \in o : TRUE

Min(a, b) == IF a < b THEN a ELSE b

Range(s) == {s[i] : i \in DOMAIN s}

\* An exception object: its class, the reason of its first API error entry,
\* a number carried in its message, and the class of the failure it came from.
Exc(cls, reason, arg) == [cls |-> cls, reason |-> reason, arg |-> arg, src |-> cls]

\* Direct and inherited base classes of the exception classes in play.
Supers(cls) ==
    CASE cls = "BadGateway" -> {"BadGateway", "ServerError", "GoogleAPICallError"}
      [] cls = "ServerError" -> {"ServerError", "GoogleAPICallError"}
      [] cls = "BadRequest" -> {"BadRequest", "ClientError", "GoogleAPICallError"}
      [] cls = "Forbidden" -> {"Forbidden", "ClientError", "GoogleAPICallError"}
      [] cls = "NotFound" -> {"NotFound", "ClientError", "GoogleAPICallError"}
      [] cls = "ConnectionResetError" -> {"ConnectionResetError", "OSError"}
      [] cls = "ConnectionError" -> {"ConnectionError", "RequestException", "OSError"}
      [] cls = "TimeoutError" -> {"TimeoutError"}
      [] cls = "RetryError" -> {"RetryError", "GoogleAPIError"}
      [] cls = "RefreshError" -> {"RefreshError", "GoogleAuthError"}
      [] cls = "FailedToConnectError" ->
            {"FailedToConnectError", "DbtDatabaseError", "DbtRuntimeError"}
      [] cls = "DbtDatabaseError" -> {"DbtDatabaseError", "DbtRuntimeError"}
      [] OTHER -> {cls}

IsInstance(e, classes) == Supers(e.cls) \cap classes # {}

\* A variant that also reopens after a server error.
REOPENABLE_ERRORS_Wide == {"ConnectionResetError", "ConnectionError", "ServerError"}

REOPENABLE_ERRORS == {"ConnectionResetError", "ConnectionError"}

\* A variant that also retries a timed-out wait.
RETRYABLE_ERRORS_Timeout ==
    {"ServerError", "BadRequest", "BadGateway", "ConnectionResetError",
     "ConnectionError", "TimeoutError"}

RETRYABLE_ERRORS ==
    {"ServerError", "BadRequest", "BadGateway", "ConnectionResetError", "ConnectionError"}

DEFAULT_INITIAL_DELAY == 1

DEFAULT_MAXIMUM_DELAY == 3

\* Failures a remote call can end with.
ServerError == Exc("ServerError", "backendError", None)
BadGateway == Exc("BadGateway", "", None)
BadRequest == Exc("BadRequest", "invalidQuery", None)
AccessDenied == Exc("Forbidden", "accessDenied", None)
RateLimited == Exc("Forbidden", "rateLimitExceeded", None)
NotFound == Exc("NotFound", "notFound", None)
ConnectionReset == Exc("ConnectionResetError", "", None)
ConnectionFailure == Exc("ConnectionError", "", None)
RefreshError == Exc("RefreshError", "", None)
UnknownError == Exc("ValueError", "", None)
AttributeError == Exc("AttributeError", "", None)
DefaultCredentialsError == Exc("DefaultCredentialsError", "", None)

AllFaults ==
    {ServerError, BadGateway, BadRequest, AccessDenied, RateLimited, NotFound,
     ConnectionReset, ConnectionFailure, RefreshError, UnknownError}

SweepFaults == {ConnectionFailure}

\* Credentials and remote behaviour of one run: job_retries,
\* job_retry_deadline_seconds, job_execution_timeout_seconds, the failures
\* the remote service produces, whether get_bigquery_client can produce a
\* client or fail, and whether it can miss the default credentials again
\* after setup_default_credentials.
RetryEnvs ==
    [retries : 0..MaxRetries,
     deadline : {None} \cup {Some(d) : d \in 0..MaxDeadline},
     timeout : {None, Some(5)},
     faults : {AllFaults},
     connects : {BOOLEAN},
     login_fails : {FALSE}]

SweepEnvs ==
    [retries : {1}, deadline : {None}, timeout : {None}, faults : {SweepFaults},
     connects : {{TRUE}}, login_fails : {FALSE}]

\* Runs with retries configured, with and without a deadline, in which
\* attempts fail with plain-retryable, reopen-required and fatal failures.
CounterEnvs ==
    [retries : 1..MaxRetries,
     deadline : {None, Some(MaxDeadline)},
     timeout : {None},
     faults : {{ServerError, ConnectionFailure, AccessDenied}},
     connects : {BOOLEAN},
     login_fails : {FALSE}]

\* Runs without a deadline under every retry count, and runs with a
\* deadline under one retry.
LiveEnvs ==
    [retries : 0..MaxRetries,
     deadline : {None},
     timeout : {None},
     faults : {{ServerError, ConnectionFailure, AccessDenied}},
     connects : {BOOLEAN},
     login_fails : {FALSE}]
    \cup
    [retries : {1},
     deadline : {Some(MaxDeadline)},
     timeout : {None},
     faults : {{ServerError, ConnectionFailure, AccessDenied}},
     connects : {BOOLEAN},
     login_fails : {FALSE}]

\* Runs in which the default credentials may be missing.
OpenEnvs ==
    [retries : 0..MaxRetries,
     deadline : {None, Some(MaxDeadline)},
     timeout : {None},
     faults : {AllFaults},
     connects : {BOOLEAN},
     login_fails : BOOLEAN]

\* ---------------------------------------------------------------- numbers

Kilo == 1024

Thousand == 1000

\* A byte count is written in base 1024, most significant digit first, so
\* that every division by 1024.0 is exact and no value outgrows the integers
\* of the checker: 1024 is <<1, 0>>, zero is <<0>>.
RECURSIVE ToDigits(_)
ToDigits(n) == IF n < Kilo THEN <<n>> ELSE Append(ToDigits(n \div Kilo), n % Kilo)

RECURSIVE DigitValue(_)
DigitValue(ds) ==
    IF ds = <<>> THEN 0
    ELSE DigitValue(SubSeq(ds, 1, Len(ds) - 1)) * Kilo + ds[Len(ds)]

Zeros(k) == [i \in 1..k |-> 0]

\* The format spec 3.1f: whole + num/den rounded to one decimal, a tie going
\* to the even digit; <<integer part, decimal digit>>.
Round1(whole, num, den) ==
    LET q == (num * 10) \div den
        r == (num * 10) % den
        t == IF 2 * r > den \/ (2 * r = den /\ q % 2 = 1) THEN q + 1 ELSE q
    IN IF t = 10 THEN <<whole + 1, 0>> ELSE <<whole, t>>

Units == <<"Bytes", "KiB", "MiB", "GiB", "TiB", "PiB">>

RowUnits == <<"", "k", "m", "b", "t">>

\* f"{num_bytes:3.1f} {unit}" for the integer digits int and the digits frac
\* behind the point, as <<integer part, decimal digit, unit>>; the byte
\* counts in play have at most two non-zero digits behind the point.
BytesText(int, frac, unit) ==
    LET f1 == IF Len(frac) >= 1 THEN frac[1] ELSE 0
        f2 == IF Len(frac) >= 2 THEN frac[2] ELSE 0
        v == Round1(DigitValue(int), f1 * Kilo + f2, Kilo * Kilo)
    IN <<v[1], v[2], unit>>

\* A variant of the threshold test that lets 1024 itself pass.
BelowKilo_Inclusive(int) == Len(int) <= 1 \/ int = <<1, 0>>

\* abs(num_bytes) < 1024.0: one digit before the point.
BelowKilo(int) == Len(int) <= 1

\* The loop of format_bytes at its i-th unit, and the lines after the loop.
RECURSIVE format_bytes_loop(_, _, _)
format_bytes_loop(int, frac, i) ==
    IF i > Len(Units)
    THEN BytesText(Append(int, frac[1]), Tail(frac), Units[Len(Units)])
    ELSE IF BelowKilo(int)
    THEN BytesText(int, frac, Units[i])
    ELSE format_bytes_loop(SubSeq(int, 1, Len(int) - 1),
                           <<int[Len(int)]>> \o frac, i + 1)

\* format_bytes: an absent or zero count comes back unchanged.
format_bytes(num_bytes) ==
    IF num_bytes = None \/ The(num_bytes) = <<0>>
    THEN num_bytes
    ELSE Some(format_bytes_loop(The(num_bytes), <<>>, 1))

\* The loop of format_rows_number with rows_number = n / scale at its i-th
\* unit, and the lines after the loop.
RECURSIVE format_rows_loop(_, _, _)
format_rows_loop(n, scale, i) ==
    LET text(s, unit) ==
            LET v == Round1(n \div s, n % s, s)
            IN <<v[1], v[2], unit>>
    IN IF i > Len(RowUnits)
       THEN text(scale \div Thousand, RowUnits[Len(RowUnits)])
       ELSE IF n \div scale < Thousand
       THEN text(scale, RowUnits[i])
       ELSE format_rows_loop(n, scale * Thousand, i + 1)

format_rows_number(rows_number) == format_rows_loop(rows_number, 1, 1)

\* str() of an optional value.
Str(o) == IF o = None THEN "None" ELSE The(o)

\* str() of what format_bytes returned.
BytesStr(b) == IF b = None THEN "None" ELSE The(b)

\* execute: the code chosen for the job's statement type.
StatementCode(statement_type) ==
    CASE statement_type = Some("CREATE_VIEW") -> Some("CREATE VIEW")
      [] statement_type = Some("CREATE_TABLE_AS_SELECT") -> Some("CREATE TABLE")
      [] statement_type = Some("SCRIPT") -> Some("SCRIPT")
      [] statement_type \in {Some("INSERT"), Some("DELETE"), Some("MERGE"),
                             Some("UPDATE")} -> statement_type
      [] statement_type = Some("SELECT") -> Some("SELECT")
      [] OTHER -> None

\* A variant that takes the job's affected-row count for every kind.
StatementRows_Dml(query_job, query_table) == query_job.num_dml_affected_rows

\* execute: num_rows by statement type; query_table is what client.get_table
\* returns for the job's destination.
StatementRows(query_job, query_table) ==
    CASE query_job.statement_type \in {Some("CREATE_TABLE_AS_SELECT"),
                                       Some("SELECT")} -> query_table.num_rows
      [] query_job.statement_type \in {Some("INSERT"), Some("DELETE"),
                                       Some("MERGE"), Some("UPDATE")} ->
            query_job.num_dml_affected_rows
      [] OTHER -> None

\* execute: the f-string of the message, part by part.
Message(code, num_rows, bytes_processed, processed_bytes) ==
    IF num_rows # None
    THEN <<Str(code), "(", format_rows_number(The(num_rows)), "rows,",
           BytesStr(processed_bytes), "processed)">>
    ELSE IF bytes_processed # None
    THEN <<Str(code), "(", BytesStr(processed_bytes), "processed)">>
    ELSE <<Str(code)>>

\* execute after raw_execute returned query_job: the response.
execute(query_job, query_table) ==
    LET code == StatementCode(query_job.statement_type)
        num_rows == StatementRows(query_job, query_table)
        bytes_processed == query_job.total_bytes_processed
        processed_bytes == format_bytes(bytes_processed)
    IN [message |-> Message(code, num_rows, bytes_processed, processed_bytes),
        rows_affected |-> num_rows,
        code |-> code,
        bytes_processed |-> bytes_processed,
        bytes_billed |-> query_job.total_bytes_billed,
        location |-> query_job.location,
        project_id |-> query_job.project,
        job_id |-> query_job.job_id,
        slot_ms |-> query_job.slot_millis]

\* A variant that reports the job's affected rows.
dry_run_Counted(query_job) ==
    [execute(query_job, [num_rows |-> None]) EXCEPT !.code = Some("DRY RUN")]

\* dry_run after raw_execute returned query_job: the response; rows_affected
\* is not passed and keeps its default.
dry_run(query_job) ==
    [message |-> <<"Ran dry run query for statement of type",
                   Str(query_job.statement_type)>>,
     rows_affected |-> None,
     code |-> Some("DRY RUN"),
     bytes_processed |-> format_bytes(query_job.total_bytes_processed),
     bytes_billed |-> query_job.total_bytes_billed,
     location |-> query_job.location,
     project_id |-> query_job.project,
     job_id |-> query_job.job_id,
     slot_ms |-> query_job.slot_millis]

\* Byte counts a job reports: absent, zero, and leading digits followed by
\* zeros up to MaxDigits digits in all (1023, 1024, 1280, 1536, 1048575,
\* 1048576, ... and counts of 1024 PiB and more).
ByteCounts ==
    {None, Some(<<0>>)} \cup
    {Some(lead \o Zeros(k)) :
        lead \in {<<1>>, <<1023>>, <<1, 256>>, <<1, 512>>, <<1023, 1023>>},
        k \in 0..(MaxDigits - 2)}

\* Row counts a job or a table reports; none sits on a rounding tie.
RowCounts == {0, 1, 999, 1000, 1500, 999999, 12345678}

StatementTypes ==
    {None} \cup
    {Some(ty) : ty \in {"CREATE_VIEW", "CREATE_TABLE_AS_SELECT", "SCRIPT",
                        "INSERT", "DELETE", "MERGE", "UPDATE", "SELECT",
                        "DROP_TABLE"}}

\* The job raw_execute returned and the table client.get_table returns for
\* its destination.
QueryJobs ==
    [statement_type : StatementTypes,
     num_dml_affected_rows : {None, Some(0), Some(1500)},
     total_bytes_processed : ByteCounts,
     total_bytes_billed : {None, Some(<<10, 0, 0>>)},
     slot_millis : {Some(7)},
     location : {Some("US")},
     project : {Some("project")},
     job_id : {Some("job")}]

QueryTables == [num_rows : {None} \cup {Some(n) : n \in RowCounts}]

ResponseEnvs == [query_job : QueryJobs, query_table : QueryTables]

\* Runs that only open and close connections.
CloseEnvs ==
    [retries : {0}, deadline : {None}, timeout : {None}, faults : {{}},
     connects : {BOOLEAN}, login_fails : {FALSE}]

VARIABLES
    env,             \* the run's credentials and remote behaviour
    conn,            \* thread_connections: thread -> [state, handle]
    jobs_by_thread,  \* thread -> sequence of issued job ids
    lock,            \* holder of self.lock
    remote,          \* jobs the remote service holds: [id, by]
    pc,              \* thread -> position in its current operation
    fr               \* thread -> frame of its current operation

vars ==
    <<env, conn, jobs_by_thread, lock, remote, pc, fr>>

InitConnection == [state |-> "init", handle |-> None, made |-> 0]

IdleFrame ==
    [op |-> "none", client |-> None, job_id |-> None, rconn |-> "t1",
     error_count |-> 0, attempts |-> 0, elapsed |-> 0, startAt |-> 0,
     exc |-> None, gap |-> <<>>, sleeps |-> 0,
     regBase |-> 0, subs |-> 0, result |-> None, raisedExc |-> None,
     cur |-> 0, idx |-> 0, due |-> {}, issued |-> {}]

\* ---------------------------------------------------------------- helpers

get_job_retries == env.retries

\* A variant that hands retry_target no deadline.
get_job_retry_deadline_seconds_Unset == None

get_job_retry_deadline_seconds == env.deadline

get_job_execution_timeout_seconds == env.timeout

\* The clock is read only against a configured deadline; runs that configure
\* none do not track it.
Later(e, d) == IF env.deadline = None THEN e ELSE Min(e + d, MaxTime)

Durations == {0, 1}

_is_retryable(error) ==
    \/ IsInstance(error, RETRYABLE_ERRORS)
    \/ (IsInstance(error, {"Forbidden"}) /\ error.reason = "rateLimitExceeded")

\* A variant whose threshold is one error further.
count_error_Lenient(retries, error_count, error) ==
    IF retries = 0
    THEN <<FALSE, error_count>>
    ELSE <<_is_retryable(error) /\ error_count <= retries, error_count + 1>>

\* A variant that never looks at the configured retry count.
count_error_Unbounded(retries, error_count, error) ==
    <<_is_retryable(error), error_count + 1>>

\* _ErrorCounter.count_error: <<verdict, new error_count>>.
count_error(retries, error_count, error) ==
    IF retries = 0
    THEN <<FALSE, error_count>>
    ELSE <<_is_retryable(error) /\ error_count + 1 <= retries, error_count + 1>>

\* What exception_handler lets out for a failure raised inside it.
exception_handler(e) ==
    IF IsInstance(e, {"BadRequest", "Forbidden", "NotFound"})
    THEN [cls |-> "DbtDatabaseError", reason |-> e.reason, arg |-> None, src |-> e.src]
    ELSE IF IsInstance(e, {"RefreshError"})
    THEN [cls |-> "DbtRuntimeError", reason |-> "serviceAccountTokenCreator",
          arg |-> None, src |-> e.src]
    ELSE IF IsInstance(e, {"DbtRuntimeError"})
    THEN e
    ELSE [cls |-> "DbtRuntimeError", reason |-> e.reason, arg |-> e.arg, src |-> e.src]

\* The n-th value the backoff generator yields is drawn from 0 .. SleepCap(n).
SleepCap(n) ==
    IF n <= 1 THEN Min(DEFAULT_INITIAL_DELAY, DEFAULT_MAXIMUM_DELAY)
    ELSE IF n = 2 THEN Min(2 * DEFAULT_INITIAL_DELAY, DEFAULT_MAXIMUM_DELAY)
    ELSE Min(4 * DEFAULT_INITIAL_DELAY, DEFAULT_MAXIMUM_DELAY)

close(c) == [c EXCEPT !.state = "closed"]

\* open: ok tells whether get_bigquery_client produced a client, at once or
\* after setup_default_credentials, or raised another failure than
\* DefaultCredentialsError.
open(c, ok) ==
    IF c.state = "open" THEN c
    ELSE IF ok
    THEN [state |-> "open", handle |-> Some(c.made + 1), made |-> c.made + 1]
    ELSE [state |-> "fail", handle |-> None, made |-> c.made]

\* A variant that hands every attempt of a thread the same id.
uuid4_Fixed(t) == <<t, 1>>

\* uuid.uuid4() never repeats: the n-th id drawn by thread t.
uuid4(t) == <<t, Len(jobs_by_thread[t]) + 1>>

\* A variant of generate_job_id that returns the id without recording it.
Register_Dropped(jobs, t, job_id) == jobs

\* A variant that keeps only the newest id of the thread.
Register_Replace(jobs, t, job_id) == [jobs EXCEPT ![t] = <<job_id>>]

\* generate_job_id: self.jobs_by_thread[thread_id].append(job_id)
Register(jobs, t, job_id) == [jobs EXCEPT ![t] = Append(@, job_id)]

\* A variant of the sweep that does not skip the caller's connection.
IsThisConnection_Never(t, c) == FALSE

\* cancel_open: connection is this_connection
IsThisConnection(t, c) == c = t

\* A thread between operations; the frame keeps the last outcome.
Free(t) == pc[t] \in {"idle", "returned", "raised"}

\* A variant in which the calls of a thread share one error counter.
RetryStart_SharedCounter(f, c) ==
    [f EXCEPT !.rconn = c, !.attempts = 0, !.elapsed = 0,
              !.startAt = 0, !.exc = None, !.gap = <<>>,
              !.sleeps = 0, !.subs = 0,
              !.regBase = Len(jobs_by_thread[c])]

\* A new _retry_and_handle call on connection c.
RetryStart(f, c) ==
    [f EXCEPT !.rconn = c, !.error_count = 0, !.attempts = 0, !.elapsed = 0,
              !.startAt = 0, !.exc = None, !.gap = <<>>,
              !.sleeps = 0, !.subs = 0,
              !.regBase = Len(jobs_by_thread[c])]

\* The target starts one more attempt.
Attempt(f) == [f EXCEPT !.attempts = @ + 1, !.startAt = f.elapsed]

\* The frame is gone once the operation ends: what the caller sees is the
\* operation, its result or the exception it raised.
Done(f, result, e) ==
    [IdleFrame EXCEPT !.op = f.op, !.result = result, !.raisedExc = e]

\* A variant in which the failure is dropped and the operation returns.
Propagate_Swallowed(t, f, e) ==
    /\ fr' = [fr EXCEPT ![t] = Done(f, None, None)]
    /\ pc' = [pc EXCEPT ![t] = "returned"]
    /\ lock' = IF lock = Some(t) THEN None ELSE lock

\* A variant in which a raising operation keeps the lock it holds.
Propagate_LockKept(t, f, e) ==
    /\ fr' = [fr EXCEPT ![t] = Done(f, None, Some(e))]
    /\ pc' = [pc EXCEPT ![t] = "raised"]
    /\ UNCHANGED lock

\* Exception e leaves thread t's operation; a held lock is released on the way.
Propagate(t, f, e) ==
    /\ fr' = [fr EXCEPT ![t] = Done(f, None, Some(e))]
    /\ pc' = [pc EXCEPT ![t] = "raised"]
    /\ lock' = IF lock = Some(t) THEN None ELSE lock

Goto(t, f, p) ==
    /\ fr' = [fr EXCEPT ![t] = f]
    /\ pc' = [pc EXCEPT ![t] = p]
    /\ UNCHANGED lock

\* retry_target after on_error: the deadline check against the next sleep
\* value, then the sleep before the next attempt.
Backoff(t, f) ==
    LET deadline == get_job_retry_deadline_seconds IN
    \E s \in 0..SleepCap(f.attempts) :
        IF deadline # None /\ f.elapsed + s > The(deadline)
        THEN Propagate(t, f, exception_handler(
                 [cls |-> "RetryError", reason |-> The(f.exc).cls,
                  arg |-> deadline, src |-> "RetryError"]))
        ELSE Goto(t, [f EXCEPT !.elapsed = Later(@, s), !.sleeps = @ + 1],
                  "target")

\* retry_target when the target raised e after d time units: the predicate
\* (count_error) decides, then on_error (reopen_conn_on_error) picks the path.
OnFailure(t, f0, e, d) ==
    LET v == count_error(get_job_retries, f0.error_count, e)
        f == [f0 EXCEPT !.exc = Some(e), !.gap = <<>>,
                        !.elapsed = Later(@, d), !.error_count = v[2]]
    IN IF ~v[1]
       THEN Propagate(t, f, exception_handler(e))
       ELSE IF IsInstance(e, REOPENABLE_ERRORS)
       THEN Goto(t, f, "reopen_close")
       ELSE Backoff(t, f)

\* ---------------------------------------------------------------- state

Start ==
    /\ conn = [t \in Threads |-> InitConnection]
    /\ jobs_by_thread = [t \in Threads |-> <<>>]
    /\ lock = None
    /\ remote = {}
    /\ pc = [t \in Threads |-> "idle"]
    /\ fr = [t \in Threads |-> IdleFrame]

Init == env \in SweepEnvs /\ Start

InitRetry == env \in RetryEnvs /\ Start

InitClose == env \in CloseEnvs /\ Start

InitOpen == env \in OpenEnvs /\ Start

InitCounter == env \in CounterEnvs /\ Start

InitLive == env \in LiveEnvs /\ Start

InitResponse == env \in ResponseEnvs /\ Start

\* ---------------------------------------------------------------- actions

\* The owning thread opens its connection.
OpenConnection(t) ==
    /\ Free(t)
    /\ conn[t].state # "open"
    /\ \E ok \in env.connects :
        /\ ok => conn[t].made < MaxHandles
        /\ conn' = [conn EXCEPT ![t] = open(@, ok)]
    /\ UNCHANGED <<env, jobs_by_thread, lock, remote, pc, fr>>

\* raw_execute up to the call of _retry_and_handle.
RawExecute(t) ==
    /\ Free(t)
    /\ Len(jobs_by_thread[t]) < MaxJobs
    /\ Goto(t, RetryStart([IdleFrame EXCEPT !.op = "raw_execute",
                                           !.client = conn[t].handle], t),
            "target")
    /\ UNCHANGED <<env, conn, jobs_by_thread, remote>>

\* fn: generate_job_id registers a fresh id.
GenerateJobId(t) ==
    /\ pc[t] = "target"
    /\ fr[t].op = "raw_execute"
    /\ jobs_by_thread' = Register(jobs_by_thread, t, uuid4(t))
    /\ Goto(t, [Attempt(fr[t]) EXCEPT !.job_id = Some(uuid4(t))], "query")
    /\ UNCHANGED <<env, conn, remote>>

\* _query_and_results: client.query submits the job.
Query(t) ==
    /\ pc[t] = "query"
    /\ LET f == fr[t]
           job_id == The(f.job_id)
       IN IF f.client = None
          THEN /\ OnFailure(t, f, AttributeError, 0)
               /\ UNCHANGED remote
          ELSE \E d \in Durations :
               \E out \in {None} \cup {Some(e) : e \in env.faults} :
                    IF out = None
                    THEN /\ remote' = remote \cup {[id |-> job_id, by |-> t]}
                         /\ Goto(t, [f EXCEPT !.subs = @ + 1,
                                              !.elapsed = Later(@, d)], "result")
                    ELSE /\ OnFailure(t, [f EXCEPT !.subs = @ + 1], The(out), d)
                         /\ UNCHANGED remote
    /\ UNCHANGED <<env, conn, jobs_by_thread>>

\* What query_job.result raises: the job's own failures, and past the
\* execution timeout the TimeoutError naming it.
ResultFailures ==
    env.faults \cup
    (IF get_job_execution_timeout_seconds = None THEN {}
     ELSE {Exc("TimeoutError", "timeout", get_job_execution_timeout_seconds)})

\* _query_and_results: query_job.result waits for the job.
Result(t) ==
    /\ pc[t] = "result"
    /\ LET f == fr[t] IN
       \E d \in Durations :
       \E out \in {None} \cup {Some(e) : e \in ResultFailures} :
         IF out = None
         THEN Goto(t, Done(f, f.job_id, None), "returned")
         ELSE OnFailure(t, f, The(out), d)
    /\ UNCHANGED <<env, conn, jobs_by_thread, remote>>

\* reopen_conn_on_error: self.close(conn).
ReopenClose(t) ==
    /\ pc[t] = "reopen_close"
    /\ LET f == fr[t]
           c == f.rconn
       IN IF conn[c].handle = None
          THEN /\ Propagate(t, f, exception_handler(AttributeError))
               /\ UNCHANGED conn
          ELSE /\ conn' = [conn EXCEPT ![c] = close(@)]
               /\ Goto(t, [f EXCEPT !.gap = Append(@, "close")], "reopen_open")
    /\ UNCHANGED <<env, jobs_by_thread, remote>>

\* reopen_conn_on_error: self.open(conn), then retry_target goes on.
ReopenOpen(t) ==
    /\ pc[t] = "reopen_open"
    /\ LET f == fr[t]
           c == f.rconn
       IN IF conn[c].state = "open"
          THEN /\ Backoff(t, [f EXCEPT !.gap = Append(@, "skip")])
               /\ UNCHANGED conn
          ELSE \/ \E ok \in env.connects :
                    /\ ok => conn[c].made < MaxHandles
                    /\ conn' = [conn EXCEPT ![c] = open(@, ok)]
                    /\ IF ok
                       THEN Backoff(t, [f EXCEPT !.gap = Append(@, "open")])
                       ELSE Propagate(t, f,
                                exception_handler(Exc("FailedToConnectError", "", None)))
               \/ /\ env.login_fails
                  /\ Propagate(t, f, exception_handler(DefaultCredentialsError))
                  /\ UNCHANGED conn
    /\ UNCHANGED <<env, jobs_by_thread, remote>>

\* cancel_open up to the lock.
CancelOpen(t) ==
    /\ Free(t)
    /\ Goto(t, [IdleFrame EXCEPT !.op = "cancel_open"], "co_lock")
    /\ UNCHANGED <<env, conn, jobs_by_thread, remote>>

\* with self.lock
AcquireLock(t) ==
    /\ pc[t] = "co_lock"
    /\ lock = None
    /\ lock' = Some(t)
    /\ fr' = [fr EXCEPT ![t].cur = 1]
    /\ pc' = [pc EXCEPT ![t] = "co_iter"]
    /\ UNCHANGED <<env, conn, jobs_by_thread, remote>>

\* One turn of the loop over thread_connections; the end of the loop leaves
\* the with block and returns.
SweepConnection(t) ==
    /\ pc[t] = "co_iter"
    /\ LET f == fr[t] IN
       IF f.cur > Len(ThreadOrder)
       THEN /\ fr' = [fr EXCEPT ![t] = Done(f, None, None)]
            /\ pc' = [pc EXCEPT ![t] = "returned"]
            /\ lock' = None
       ELSE LET c == ThreadOrder[f.cur] IN
            IF IsThisConnection(t, c)
            THEN Goto(t, [f EXCEPT !.cur = @ + 1], "co_iter")
            ELSE IF conn[c].handle # None /\ conn[c].state = "open"
            THEN Goto(t, [f EXCEPT !.client = conn[c].handle, !.idx = 1,
                                   !.due = Range(jobs_by_thread[c]),
                                   !.issued = {}], "co_jobs")
            ELSE Goto(t, [f EXCEPT !.cur = @ + 1], "co_iter")
    /\ UNCHANGED <<env, conn, jobs_by_thread, remote>>

\* A variant in which the loop starts over after the connection's last id.
SweepJob_Again(t) ==
    /\ pc[t] = "co_jobs"
    /\ LET f == fr[t]
           c == ThreadOrder[f.cur]
       IN IF f.idx <= Len(jobs_by_thread[c])
          THEN Goto(t, RetryStart([f EXCEPT !.job_id =
                                       Some(jobs_by_thread[c][f.idx])], c),
                    "target")
          ELSE IF jobs_by_thread[c] # <<>>
          THEN Goto(t, [f EXCEPT !.idx = 1], "co_jobs")
          ELSE Goto(t, f, "co_close")
    /\ UNCHANGED <<env, conn, jobs_by_thread, remote>>

\* One turn of the loop over the connection's job ids: the next id goes to
\* _retry_and_handle; after the last one the connection is closed.
SweepJob(t) ==
    /\ pc[t] = "co_jobs"
    /\ LET f == fr[t]
           c == ThreadOrder[f.cur]
       IN IF f.idx <= Len(jobs_by_thread[c])
          THEN Goto(t, RetryStart([f EXCEPT !.job_id =
                                       Some(jobs_by_thread[c][f.idx])], c),
                    "target")
          ELSE Goto(t, f, "co_close")
    /\ UNCHANGED <<env, conn, jobs_by_thread, remote>>

\* What client.cancel_job raises: no job under that id is a NotFound.
Exists(job_id) == \E j \in remote : j.id = job_id

CancelFailures(job_id) ==
    env.faults \cup (IF Exists(job_id) THEN {} ELSE {NotFound})

\* fn: client.cancel_job(job_id).
CancelJob(t) ==
    /\ pc[t] = "target"
    /\ fr[t].op = "cancel_open"
    /\ LET f == [Attempt(fr[t]) EXCEPT !.issued = @ \cup fr[t].job_id]
           job_id == The(f.job_id)
       IN \E out \in (IF Exists(job_id) THEN {None} ELSE {}) \cup
                     {Some(e) : e \in CancelFailures(job_id)} :
             IF out = None
             THEN Goto(t, [f EXCEPT !.idx = @ + 1], "co_jobs")
             ELSE OnFailure(t, f, The(out), 0)
    /\ UNCHANGED <<env, conn, jobs_by_thread, remote>>

\* self.close(connection) at the end of a connection's turn.
SweepClose(t) ==
    /\ pc[t] = "co_close"
    /\ LET f == fr[t]
           c == ThreadOrder[f.cur]
       IN IF conn[c].handle = None
          THEN /\ Propagate(t, f, AttributeError)
               /\ UNCHANGED conn
          ELSE /\ conn' = [conn EXCEPT ![c] = close(@)]
               /\ Goto(t, [IdleFrame EXCEPT !.op = f.op, !.cur = f.cur + 1],
                       "co_iter")
    /\ UNCHANGED <<env, jobs_by_thread, remote>>

\* A caller hands its connection to close.
CallClose(t) ==
    /\ Free(t)
    /\ Goto(t, [IdleFrame EXCEPT !.op = "close"], "close")
    /\ UNCHANGED <<env, conn, jobs_by_thread, remote>>

\* close: connection.handle.close() raises on a connection without a handle;
\* otherwise the state becomes CLOSED.
Close(t) ==
    /\ pc[t] = "close"
    /\ IF conn[t].handle = None
       THEN /\ Propagate(t, fr[t], AttributeError)
            /\ UNCHANGED conn
       ELSE /\ conn' = [conn EXCEPT ![t] = close(@)]
            /\ Goto(t, Done(fr[t], None, None), "returned")
    /\ UNCHANGED <<env, jobs_by_thread, remote>>

\* A caller hands its connection to open.
CallOpen(t) ==
    /\ Free(t)
    /\ Goto(t, [IdleFrame EXCEPT !.op = "open"], "open")
    /\ UNCHANGED <<env, conn, jobs_by_thread, remote>>

\* open: returns the connection, or raises FailedToConnectError when
\* get_bigquery_client raised; a failure raised while the
\* DefaultCredentialsError of the first get_bigquery_client is handled
\* (the second get_bigquery_client misses the credentials again) passes the
\* except clauses and leaves the connection as it was.
Open(t) ==
    /\ pc[t] = "open"
    /\ \/ \E ok \in env.connects :
             /\ ok => conn[t].made < MaxHandles
             /\ conn' = [conn EXCEPT ![t] = open(@, ok)]
             /\ IF conn[t].state = "open" \/ ok
                THEN Goto(t, Done(fr[t], None, None), "returned")
                ELSE Propagate(t, fr[t], Exc("FailedToConnectError", "", None))
       \/ /\ env.login_fails
          /\ conn[t].state # "open"
          /\ Propagate(t, fr[t], DefaultCredentialsError)
          /\ UNCHANGED conn
    /\ UNCHANGED <<env, jobs_by_thread, remote>>

\* execute, from the job raw_execute returned to the response.
Execute(t) ==
    /\ Free(t)
    /\ Goto(t, Done([IdleFrame EXCEPT !.op = "execute"],
                    Some(execute(env.query_job, env.query_table)), None),
            "returned")
    /\ UNCHANGED <<env, conn, jobs_by_thread, remote>>

\* dry_run, from the job raw_execute returned to the response.
DryRun(t) ==
    /\ Free(t)
    /\ Goto(t, Done([IdleFrame EXCEPT !.op = "dry_run"],
                    Some(dry_run(env.query_job)), None),
            "returned")
    /\ UNCHANGED <<env, conn, jobs_by_thread, remote>>

\* The operations that hand one client call to _retry_and_handle.
AdminOps == {"create_dataset", "drop_dataset", "list_dataset", "copy_bq_table"}

\* create_dataset, drop_dataset, list_dataset, copy_bq_table up to the call
\* of _retry_and_handle.
AdminOperation(t) ==
    /\ Free(t)
    /\ \E op \in AdminOps :
          Goto(t, RetryStart([IdleFrame EXCEPT !.op = op,
                                              !.client = conn[t].handle], t),
               "target")
    /\ UNCHANGED <<env, conn, jobs_by_thread, remote>>

\* fn of an administrative operation: one call on the client.
AdminCall(t) ==
    /\ pc[t] = "target"
    /\ fr[t].op \in AdminOps
    /\ LET f == Attempt(fr[t]) IN
       IF f.client = None
       THEN OnFailure(t, f, AttributeError, 0)
       ELSE \E out \in {None} \cup {Some(e) : e \in env.faults} :
               IF out = None
               THEN Goto(t, Done(f, None, None), "returned")
               ELSE OnFailure(t, f, The(out), 0)
    /\ UNCHANGED <<env, conn, jobs_by_thread, remote>>

\* A thread that opens its connection and runs queries.
Worker(t) ==
    \/ OpenConnection(t)
    \/ RawExecute(t)
    \/ GenerateJobId(t)
    \/ Query(t)
    \/ Result(t)
    \/ ReopenClose(t)
    \/ ReopenOpen(t)

\* The thread that also runs cancel_open.
Sweeper(t) ==
    \/ CancelOpen(t)
    \/ AcquireLock(t)
    \/ SweepConnection(t)
    \/ SweepJob(t)
    \/ CancelJob(t)
    \/ SweepClose(t)

\* Three threads run queries; the main thread t1 sweeps as well.
Next == Sweeper(MainThread) \/ \E t \in Threads : Worker(t)

\* One thread runs queries.
NextRetry == Worker(MainThread)

\* Threads open and close their connections.
NextClose == \E t \in Threads : OpenConnection(t) \/ CallClose(t) \/ Close(t)

Spec == Init /\ [][Next]_vars

SpecClose == InitClose /\ [][NextClose]_vars

\* A thread that runs administrative operations and closes its connection.
Admin(t) == AdminOperation(t) \/ AdminCall(t) \/ CallClose(t) \/ Close(t)

\* Two threads run queries and administrative operations and close their
\* connections; the main thread sweeps as well.
NextRegistry ==
    \/ Sweeper(MainThread)
    \/ \E t \in {"t1", "t2"} : Worker(t) \/ Admin(t)

SpecRegistry == Init /\ [][NextRegistry]_vars

\* One thread opens and closes its connection and runs queries.
NextOpen ==
    \/ CallOpen(MainThread)
    \/ Open(MainThread)
    \/ CallClose(MainThread)
    \/ Close(MainThread)
    \/ RawExecute(MainThread)
    \/ GenerateJobId(MainThread)
    \/ Query(MainThread)
    \/ Result(MainThread)
    \/ ReopenClose(MainThread)
    \/ ReopenOpen(MainThread)

SpecOpen == InitOpen /\ [][NextOpen]_vars

\* One thread runs queries while the main thread sweeps, reopening the
\* connections it sweeps where a cancel request asks for it.
NextCounter ==
    \/ Sweeper(MainThread)
    \/ ReopenClose(MainThread)
    \/ ReopenOpen(MainThread)
    \/ Worker("t2")

SpecCounter == InitCounter /\ [][NextCounter]_vars

\* The steps thread t takes once it is inside an operation; each is a
\* remote call that returns or fails, or a step of the thread's own code.
Continue(t) ==
    \/ GenerateJobId(t)
    \/ Query(t)
    \/ Result(t)
    \/ ReopenClose(t)
    \/ ReopenOpen(t)
    \/ AcquireLock(t)
    \/ SweepConnection(t)
    \/ SweepJob(t)
    \/ CancelJob(t)
    \/ SweepClose(t)

\* Every thread inside an operation goes on running.
SpecLive ==
    /\ InitLive
    /\ [][NextCounter]_vars
    /\ \A t \in {"t1", "t2"} : WF_vars(Continue(t))

\* One thread builds responses.
NextResponse == Execute(MainThread) \/ DryRun(MainThread)

SpecResponse == InitResponse /\ [][NextResponse]_vars

SpecRetry == InitRetry /\ [][NextRetry]_vars

\* ---------------------------------------------------------------- properties

\* Job ids thread t has in its registry entry.
Registered(t) == Range(jobs_by_thread[t])

\* C1: registration happens before submission. A thread about to issue
\* client.query, on its first attempt or on a retry, holds a job id that is
\* already in its own entry of jobs_by_thread, and every job the remote
\* service holds was submitted under an id in its submitter's entry.
C1_RegisteredBeforeSubmit ==
    /\ \A t \in Threads :
          pc[t] \in {"query", "result"} =>
              /\ fr[t].job_id # None
              /\ The(fr[t].job_id) \in Registered(t)
    /\ \A j \in remote : j.id \in Registered(j.by)

\* A retry of raw_execute has submitted its job under a second id.
C1_Witness ==
    \E t \in Threads :
        /\ pc[t] = "result"
        /\ fr[t].attempts >= 2
        /\ [id |-> The(fr[t].job_id), by |-> t] \in remote
        /\ Len(jobs_by_thread[t]) >= 2

\* C2: a cancel request for a registered id with no remote job (the service
\* answers NotFound) does not make cancel_open raise.
C2_NotFoundIsNoOp ==
    \A t \in Threads :
        (pc[t] = "raised" /\ fr[t].op = "cancel_open") =>
            The(fr[t].raisedExc).src # "NotFound"

\* Positions of a sweep inside the turn of one connection.
TurnPcs == {"co_jobs", "target", "reopen_close", "reopen_open", "co_close"}

\* Thread t's step ends the turn of the connection its sweep had reached.
TurnEnds(t) ==
    /\ fr[t].op = "cancel_open"
    /\ pc[t] \in TurnPcs
    /\ pc'[t] \in {"co_iter", "raised"}

\* Ids a cancel request went out for by the end of thread t's step.
IssuedBy(t) ==
    fr[t].issued \cup (IF pc[t] = "target" THEN fr[t].job_id ELSE {})

\* The remote service refused the sweep's connection for good.
ConnectionLost(t) ==
    /\ pc'[t] = "raised"
    /\ The(fr'[t].raisedExc).src \in {"ConnectionError", "FailedToConnectError"}

\* C3: whenever the turn of a connection the sweep reached OPEN ends, a
\* cancel request has gone out for every id registered under its thread when
\* it was reached, and the connection is closed.
C3_EveryJobCancelledThenClosed ==
    [][\A t \in Threads :
          (TurnEnds(t) /\ ~ConnectionLost(t)) =>
              /\ fr[t].due \subseteq IssuedBy(t)
              /\ conn'[ThreadOrder[fr[t].cur]].state = "closed"]_vars

\* Thread t takes a step of cancel_open.
SweepStep(t) ==
    /\ fr[t].op = "cancel_open"
    /\ ~Free(t)
    /\ (pc'[t] # pc[t] \/ fr'[t] # fr[t])

\* C4: no step of cancel_open sends a cancel request for an id registered
\* under the calling thread, works on the caller's connection, or changes
\* the caller's connection.
C4_OwnConnectionUntouched ==
    [][\A t \in Threads :
          SweepStep(t) =>
              /\ conn'[t] = conn[t]
              /\ pc[t] \in TurnPcs => ThreadOrder[fr[t].cur] # t
              /\ pc[t] = "target" => The(fr[t].job_id) \notin Registered(t)]_vars

\* A finished sweep closed another thread's connection that had jobs, while
\* the caller's own connection is OPEN and the caller has jobs of its own.
C4_Witness ==
    \E t \in Threads :
        /\ pc[t] = "returned"
        /\ fr[t].op = "cancel_open"
        /\ conn[t].state = "open"
        /\ jobs_by_thread[t] # <<>>
        /\ \E c \in Threads \ {t} :
              conn[c].state = "closed" /\ jobs_by_thread[c] # <<>>

\* Thread t is inside a _retry_and_handle call of raw_execute.
InCall(t) == fr[t].op = "raw_execute" /\ ~Free(t)

\* C5 as stated: the attempts of one _retry_and_handle call number at most
\* the configured job retry count, a count of zero standing for one attempt.
C5_AtMostRetriesAttempts ==
    \A t \in Threads :
        InCall(t) =>
            fr[t].attempts <= (IF get_job_retries = 0 THEN 1 ELSE get_job_retries)

\* C5: the attempts of one _retry_and_handle call number at most the
\* configured job retry count plus one, the first attempt not being a retry;
\* two attempts happen only after one failure was counted.
C5_AtMostRetriesPlusOneAttempts ==
    \A t \in Threads :
        InCall(t) =>
            /\ fr[t].attempts <= get_job_retries + 1
            /\ fr[t].attempts <= fr[t].error_count + 1

\* A call with a positive retry count is in its last allowed attempt.
C5_Witness ==
    \E t \in Threads :
        /\ InCall(t)
        /\ pc[t] = "result"
        /\ get_job_retries >= 1
        /\ fr[t].attempts = get_job_retries + 1

\* C6: with a retry deadline configured, every attempt of a
\* _retry_and_handle call starts no later than the deadline after the call
\* began.
C6_NoAttemptPastDeadline ==
    \A t \in Threads :
        (InCall(t) /\ env.deadline # None /\ fr[t].attempts >= 1) =>
            fr[t].startAt <= The(env.deadline)

\* The deadline ended a call that had retries left.
C6_Witness ==
    \E t \in Threads :
        /\ pc[t] = "raised"
        /\ env.deadline # None
        /\ The(fr[t].raisedExc).src = "RetryError"
        /\ get_job_retries = MaxRetries

ReopenKinds == {ConnectionReset, ConnectionFailure}

PlainKinds == {ServerError, BadGateway, RateLimited}

\* Thread t's step ends the handling of a failed attempt with the next
\* attempt about to start.
NextAttemptFollows(t) ==
    /\ InCall(t)
    /\ pc[t] \in {"query", "result", "reopen_open"}
    /\ pc'[t] = "target"

\* C7: when another attempt follows a reopen-required failure, the call has
\* closed and then opened the connection exactly once in between and the
\* connection is OPEN under a new handle; when it follows a plain-retryable
\* failure, the call has neither closed nor opened it and the connection is
\* as the failed attempt left it.
C7_ReopenExactlyWhenRequired ==
    [][\A t \in Threads :
          NextAttemptFollows(t) =>
              LET e == The(fr'[t].exc) IN
              /\ e \in ReopenKinds =>
                    /\ fr'[t].gap = <<"close", "open">>
                    /\ conn'[t].state = "open"
                    /\ conn'[t].handle # fr[t].client
              /\ e \in PlainKinds =>
                    /\ fr'[t].gap = <<>>
                    /\ pc[t] # "reopen_open"
                    /\ conn'[t] = conn[t]]_vars

\* A call that reopened after its first failure goes on after a server
\* error with the reopened connection untouched.
C7_Witness ==
    \E t \in Threads :
        /\ InCall(t)
        /\ pc[t] = "target"
        /\ fr[t].attempts = 2
        /\ fr[t].exc = Some(ServerError)
        /\ fr[t].gap = <<>>
        /\ conn[t].state = "open"
        /\ conn[t].made = 2

\* The failure the call's last finished attempt ended with, when the call
\* went on after it.
RetriedAfter(t, e) == InCall(t) /\ fr[t].exc = Some(e)

\* C8: a bad request, a forbidden other than rate-limit-exceeded, or a not
\* found ends the call at once: no call goes on to a reopen, a sleep or
\* another attempt after such a failure.
C8_FatalKindsNeverRetried ==
    \A t \in Threads :
        \A e \in {BadRequest, AccessDenied, NotFound} : ~RetriedAfter(t, e)

\* The failure matches one of the known retryable classes.
KnownClass(e) ==
    \/ IsInstance(e, {"ServerError", "BadGateway", "ConnectionResetError",
                      "ConnectionError"})
    \/ (IsInstance(e, {"Forbidden"}) /\ e.reason = "rateLimitExceeded")

\* C9: a failure matching none of the known classes (server error, bad
\* gateway, connection reset, connection failure, rate-limit forbidden) is
\* never retried: every failure a call goes on after is of a known class.
C9_UnknownNeverRetried ==
    \A t \in Threads :
        (InCall(t) /\ fr[t].exc # None) => KnownClass(The(fr[t].exc))

\* The wait of thread t's attempt ends with the execution timeout.
TimedOut(t) ==
    /\ InCall(t)
    /\ pc[t] = "result"
    /\ \/ pc'[t] = "raised" /\ The(fr'[t].raisedExc).src = "TimeoutError"
       \/ pc'[t] # "raised" /\ fr'[t].exc # None
                            /\ The(fr'[t].exc).cls = "TimeoutError"

\* The timed-out wait ends raw_execute with the failure carrying the
\* configured execution timeout.
FailsWithTimeout(t) ==
    /\ pc'[t] = "raised"
    /\ The(fr'[t].raisedExc).arg = get_job_execution_timeout_seconds
    /\ get_job_execution_timeout_seconds # None

\* Job ids the call of thread t has registered.
Regs(t) == Len(jobs_by_thread[t]) - fr[t].regBase

\* C10 as stated: a timed-out wait makes raw_execute fail with the timeout
\* failure carrying the configured value, and the call has registered
\* exactly one job id and issued exactly one submission.
C10_TimeoutAfterOneSubmission ==
    [][\A t \in Threads :
          TimedOut(t) =>
              /\ FailsWithTimeout(t)
              /\ Regs(t) = 1
              /\ fr[t].subs = 1]_vars

\* C10: a timed-out wait makes raw_execute fail with the timeout failure
\* carrying the configured value and is itself never retried; the call has
\* registered one job id and issued one submission per attempt made, which
\* is exactly one of each when the wait that timed out was the first
\* attempt's.
C10_TimeoutIsNotRetried ==
    [][\A t \in Threads :
          TimedOut(t) =>
              /\ FailsWithTimeout(t)
              /\ Regs(t) = fr[t].attempts
              /\ fr[t].subs = fr[t].attempts
              /\ fr[t].error_count = 0 => (Regs(t) = 1 /\ fr[t].subs = 1)]_vars

\* raw_execute failed on the execution timeout although retries were
\* configured.
C10_Witness ==
    \E t \in Threads :
        /\ pc[t] = "raised"
        /\ fr[t].op = "raw_execute"
        /\ get_job_retries >= 1
        /\ The(fr[t].raisedExc).src = "TimeoutError"
        /\ The(fr[t].raisedExc).arg = get_job_execution_timeout_seconds

\* Thread t takes a step inside its _retry_and_handle call of raw_execute.
CallStep(t) == InCall(t) /\ (pc'[t] # pc[t] \/ fr'[t] # fr[t])

\* C11: with a retry count of zero the wrapped operation runs once: the
\* first failure, whatever its class, leaves the call at once, so no step of
\* the call sleeps, closes or opens the connection, or starts a second
\* attempt.
C11_ZeroRetriesRunsOnce ==
    [][\A t \in Threads :
          (CallStep(t) /\ get_job_retries = 0) =>
              /\ pc'[t] \in {"query", "result", "returned", "raised"}
              /\ fr'[t].attempts <= 1
              /\ fr'[t].sleeps = 0
              /\ fr'[t].gap = <<>>
              /\ fr'[t].exc = None
              /\ conn' = conn]_vars

\* With a retry count of zero a connection reset ended the call, the
\* connection still OPEN under its first handle.
C11_Witness ==
    \E t \in Threads :
        /\ get_job_retries = 0
        /\ pc[t] = "raised"
        /\ fr[t].op = "raw_execute"
        /\ The(fr[t].raisedExc).src = "ConnectionResetError"
        /\ conn[t] = [state |-> "open", handle |-> Some(1), made |-> 1]
        /\ Len(jobs_by_thread[t]) = 1

\* What the attempt at position p can fail with.
AttemptFailures(p) ==
    IF p = "query" THEN env.faults \cup {AttributeError} ELSE ResultFailures

\* C12: a _retry_and_handle call returns only from a successful wait of its
\* last attempt and then hands back that attempt's job; when an attempt's
\* failure ends the call, the call raises: the failure as exception_handler
\* lets it out, or past the deadline the RetryError built from it.
C12_NoFailureSwallowed ==
    [][\A t \in Threads :
          CallStep(t) =>
              /\ pc'[t] = "returned" =>
                    /\ pc[t] = "result"
                    /\ fr'[t].raisedExc = None
                    /\ fr'[t].result = fr[t].job_id
                    /\ [id |-> The(fr[t].job_id), by |-> t] \in remote
              /\ (pc[t] \in {"query", "result"}
                    /\ pc'[t] \notin {"returned", "result"}
                    /\ fr'[t].exc = None) =>
                    /\ pc'[t] = "raised"
                    /\ fr'[t].result = None
                    /\ fr'[t].raisedExc # None
                    /\ LET x == The(fr'[t].raisedExc) IN
                       IF x.src = "RetryError"
                       THEN /\ get_job_retry_deadline_seconds # None
                            /\ \E e \in AttemptFailures(pc[t]) : x.reason = e.cls
                       ELSE \E e \in AttemptFailures(pc[t]) :
                                x = exception_handler(e)]_vars

\* A call ended by raising the server error of its last allowed attempt.
C12_Witness ==
    \E t \in Threads :
        /\ pc[t] = "raised"
        /\ fr[t].op = "raw_execute"
        /\ get_job_retries = MaxRetries
        /\ Len(jobs_by_thread[t]) = MaxRetries + 1
        /\ fr[t].result = None
        /\ The(fr[t].raisedExc).src = "ServerError"

\* Positions of cancel_open inside its with self.lock block.
SweepPcs == {"co_iter"} \cup TurnPcs

\* C13: a thread submitting a job or waiting for its result does not hold
\* the lock; a thread sweeping in cancel_open holds it at every position of
\* the sweep; and no thread holds it once its operation has ended, by
\* returning or by raising.
C13_LockHeldExactlyDuringSweep ==
    \A t \in Threads :
        /\ pc[t] \in {"query", "result"} => lock # Some(t)
        /\ (fr[t].op = "cancel_open" /\ pc[t] \in SweepPcs) => lock = Some(t)
        /\ fr[t].op # "cancel_open" => lock # Some(t)
        /\ Free(t) => lock # Some(t)

\* A sweep has raised and the lock is free, while another thread waits for
\* its job's result.
C13_Witness ==
    \E t \in Threads : \E u \in Threads \ {t} :
        /\ fr[t].op = "cancel_open"
        /\ pc[t] = "raised"
        /\ lock = None
        /\ pc[u] = "result"

\* Thread t's step is the body of close.
CloseStep(t) == pc[t] = "close" /\ pc'[t] # "close"

\* C14: close called on a connection that is OPEN, CLOSED or FAILED returns
\* without raising and leaves the connection CLOSED.
C14_CloseFromAnyState ==
    [][\A t \in Threads :
          (CloseStep(t) /\ conn[t].state \in {"open", "closed", "fail"}) =>
              /\ pc'[t] = "returned"
              /\ conn'[t].state = "closed"]_vars

\* The response thread t's last operation op returned.
Returned(t, op) == fr[t].op = op /\ pc[t] = "returned" /\ fr[t].result # None

\* C15: every response dry_run returns has the code "DRY RUN" and no
\* rows-affected, whatever the job's statement type and metadata.
C15_DryRunCodeNoRows ==
    \A t \in Threads :
        Returned(t, "dry_run") =>
            /\ The(fr[t].result).code = Some("DRY RUN")
            /\ The(fr[t].result).rows_affected = None

\* dry_run answered for an INSERT whose job reports affected rows.
C15_Witness ==
    \E t \in Threads :
        /\ Returned(t, "dry_run")
        /\ env.query_job.statement_type = Some("INSERT")
        /\ env.query_job.num_dml_affected_rows = Some(1500)
        /\ The(fr[t].result).code = Some("DRY RUN")

\* C16: the rows-affected of execute's response is the destination table's
\* row count for CREATE_TABLE_AS_SELECT and SELECT, the job's affected-row
\* count for INSERT, DELETE, MERGE and UPDATE, and absent for CREATE_VIEW,
\* SCRIPT and every other kind.
C16_RowsByStatementKind ==
    \A t \in Threads :
        Returned(t, "execute") =>
            LET ty == env.query_job.statement_type
                rows == The(fr[t].result).rows_affected
            IN /\ ty \in {Some("CREATE_TABLE_AS_SELECT"), Some("SELECT")} =>
                     rows = env.query_table.num_rows
               /\ ty \in {Some("INSERT"), Some("DELETE"), Some("MERGE"),
                           Some("UPDATE")} =>
                     rows = env.query_job.num_dml_affected_rows
               /\ ty \notin {Some("CREATE_TABLE_AS_SELECT"), Some("SELECT"),
                              Some("INSERT"), Some("DELETE"), Some("MERGE"),
                              Some("UPDATE")} =>
                     rows = None

\* execute answered for a SELECT with the table's row count although the job
\* reports a different affected-row count.
C16_Witness ==
    \E t \in Threads :
        /\ Returned(t, "execute")
        /\ env.query_job.statement_type = Some("SELECT")
        /\ env.query_job.num_dml_affected_rows = Some(1500)
        /\ env.query_table.num_rows = Some(1000)
        /\ The(fr[t].result).rows_affected = Some(1000)

\* Names a message may give statement type ty.
KindNames(ty) ==
    CASE ty = "CREATE_VIEW" -> {"CREATE_VIEW", "CREATE VIEW"}
      [] ty = "CREATE_TABLE_AS_SELECT" ->
            {"CREATE_TABLE_AS_SELECT", "CREATE TABLE AS SELECT", "CREATE TABLE"}
      [] OTHER -> {ty}

\* C17: the message of execute's response is the kind, the formatted rows
\* and the formatted bytes when the row count is known, else the kind and
\* the formatted bytes when bytes-processed is known, else the kind alone;
\* the kind names the job's statement type, for the listed kinds and for
\* every other.
C17_MessageForm ==
    \A t \in Threads :
        (Returned(t, "execute") /\ env.query_job.statement_type # None) =>
            LET r == The(fr[t].result)
                kind == r.message[1]
                bytes == BytesStr(format_bytes(env.query_job.total_bytes_processed))
            IN /\ kind \in KindNames(The(env.query_job.statement_type))
               /\ IF r.rows_affected # None
                  THEN r.message = <<kind, "(",
                                     format_rows_number(The(r.rows_affected)),
                                     "rows,", bytes, "processed)">>
                  ELSE IF r.bytes_processed # None
                  THEN r.message = <<kind, "(", bytes, "processed)">>
                  ELSE r.message = <<kind>>

\* C18: format_bytes returns an absent or zero count unchanged and gives a
\* positive count n the k-th unit of Bytes, KiB, MiB, GiB, TiB, PiB, k the
\* least with n / 1024^k < 1024 and PiB when there is none: 1023 is in
\* Bytes, 1024 in KiB, 1048576 in MiB.
C18_UnitByRepeatedDivision ==
    \A t \in Threads :
        Returned(t, "dry_run") =>
            LET n == env.query_job.total_bytes_processed
                out == The(fr[t].result).bytes_processed
            IN IF n = None \/ The(n) = <<0>>
               THEN out = n
               ELSE LET unit == The(out)[3] IN
                    /\ unit = Units[Min(Len(The(n)), Len(Units))]
                    /\ The(n) = ToDigits(1023) => unit = "Bytes"
                    /\ The(n) = ToDigits(1024) => unit = "KiB"
                    /\ The(n) = ToDigits(1048576) => unit = "MiB"
                    /\ Len(The(n)) <= Len(Units) => The(out)[1] <= Kilo

\* A count of 1024 PiB or more came back in PiB.
C18_Witness ==
    \E t \in Threads :
        /\ Returned(t, "dry_run")
        /\ env.query_job.total_bytes_processed # None
        /\ Len(The(env.query_job.total_bytes_processed)) > Len(Units)
        /\ The(The(fr[t].result).bytes_processed)[3] = "PiB"
        /\ The(The(fr[t].result).bytes_processed)[1] >= Kilo

\* C19: every attempt of raw_execute registers an id the thread has not
\* registered before, the submit call is only reached through such a
\* registration and carries the id just registered, which the remote service
\* does not hold yet; the ids a call has registered are as many as the
\* attempts it has started, and a thread's ids are pairwise distinct.
C19_FreshIdPerAttempt ==
    [][\A t \in Threads :
          /\ jobs_by_thread'[t] # jobs_by_thread[t] =>
                /\ fr'[t].job_id # None
                /\ The(fr'[t].job_id) \notin Registered(t)
                /\ jobs_by_thread'[t] = Append(jobs_by_thread[t], The(fr'[t].job_id))
                /\ fr'[t].attempts = fr[t].attempts + 1
          /\ (pc'[t] = "query" /\ pc[t] # "query") =>
                Len(jobs_by_thread'[t]) = Len(jobs_by_thread[t]) + 1
          /\ (pc[t] = "query" /\ pc'[t] # "query") =>
                /\ The(fr[t].job_id) = jobs_by_thread[t][Len(jobs_by_thread[t])]
                /\ \A j \in remote : j.id # The(fr[t].job_id)
          /\ (fr'[t].op = "raw_execute" /\ pc'[t] \notin {"idle", "returned", "raised"}) =>
                Len(jobs_by_thread'[t]) - fr'[t].regBase = fr'[t].attempts
          /\ Cardinality({jobs_by_thread'[t][i] : i \in DOMAIN jobs_by_thread'[t]})
                = Len(jobs_by_thread'[t])]_vars

\* A call in its last allowed attempt has registered and submitted one id
\* per attempt.
C19_Witness ==
    \E t \in Threads :
        /\ InCall(t)
        /\ pc[t] = "result"
        /\ fr[t].attempts = MaxRetries + 1
        /\ fr[t].subs = MaxRetries + 1
        /\ Cardinality(Registered(t)) = MaxRetries + 1

\* Thread t takes a step of an operation other than raw_execute.
OtherStep(t) ==
    /\ fr[t].op \in {"cancel_open", "close"} \cup AdminOps
    /\ ~Free(t)
    /\ (pc'[t] # pc[t] \/ fr'[t] # fr[t])

\* C20: a thread's sequence in jobs_by_thread changes only by one id being
\* appended at its end, in a step of the owning thread's raw_execute; no
\* step of cancel_open, close, open or an administrative operation changes
\* any thread's sequence.
C20_RegistryAppendOnly ==
    [][/\ \A t \in Threads :
            \/ jobs_by_thread'[t] = jobs_by_thread[t]
            \/ /\ pc[t] = "target" /\ fr[t].op = "raw_execute"
               /\ pc'[t] = "query"
               /\ Len(jobs_by_thread'[t]) = Len(jobs_by_thread[t]) + 1
               /\ SubSeq(jobs_by_thread'[t], 1, Len(jobs_by_thread[t]))
                     = jobs_by_thread[t]
       /\ (\E t \in Threads : OtherStep(t)) => UNCHANGED jobs_by_thread
       /\ conn' # conn => UNCHANGED jobs_by_thread]_vars

\* A finished sweep has closed the connection of a thread whose two ids are
\* still in the registry, in the order they were issued.
C20_Witness ==
    \E t \in Threads : \E u \in Threads \ {t} :
        /\ fr[t].op = "cancel_open"
        /\ pc[t] = "returned"
        /\ conn[u].state = "closed"
        /\ jobs_by_thread[u] = <<<<u, 1>>, <<u, 2>>>>

\* C21: when an attempt of raw_execute follows a reopen (the call closed the
\* connection and opened it again), the submit call of that attempt goes
\* through the handle the connection holds now, not the one that was closed.
C21_RetryUsesCurrentHandle ==
    \A t \in Threads :
        (InCall(t) /\ pc[t] = "query" /\ fr[t].gap = <<"close", "open">>) =>
            fr[t].client = conn[t].handle

\* Thread t's step issues client.query.
SubmitStep(t) ==
    /\ fr[t].op = "raw_execute"
    /\ pc[t] = "query"
    /\ pc'[t] # "query"
    /\ fr[t].client # None

\* C22: whenever a thread issues a submit request, on a first attempt or on
\* a retry, the state of its connection is OPEN at that moment, whatever
\* the sweeps of other threads have done in between.
C22_SubmitOnlyThroughOpen ==
    [][\A t \in Threads : SubmitStep(t) => conn[t].state = "open"]_vars

\* Thread t's step is the body of open.
OpenStep(t) == pc[t] = "open" /\ pc'[t] # "open"

\* Thread t's step is the open of a reopen inside _retry_and_handle.
ReopenStep(t) == pc[t] = "reopen_open" /\ pc'[t] # "reopen_open"

\* The step left connection c OPEN under a handle no connection state held
\* before.
OpenedAnew(c) ==
    /\ conn'[c].state = "open"
    /\ conn'[c].handle = Some(conn[c].made + 1)
    /\ conn'[c].handle # conn[c].handle

\* Thread t's step raises the connect failure.
RaisesConnectFailure(t) ==
    /\ pc'[t] = "raised"
    /\ The(fr'[t].raisedExc).cls = "FailedToConnectError"

\* The step left connection c FAILED without a handle.
LeftFailed(c) == conn'[c].state = "fail" /\ conn'[c].handle = None

\* C23: open on an OPEN connection returns and changes nothing; open on any
\* other connection either returns with the connection OPEN under a new
\* handle or raises the connect failure with the connection FAILED and its
\* handle cleared; and when the open of a reopen inside _retry_and_handle
\* raises the connect failure, the call ends in that step, with no further
\* attempt, and the connection is FAILED.
C23_OpenOutcomes ==
    [][\A t \in Threads :
          /\ OpenStep(t) =>
                IF conn[t].state = "open"
                THEN conn'[t] = conn[t] /\ pc'[t] = "returned"
                ELSE \/ OpenedAnew(t) /\ pc'[t] = "returned"
                     \/ LeftFailed(t) /\ RaisesConnectFailure(t)
          /\ ReopenStep(t) =>
                /\ RaisesConnectFailure(t) <=> conn'[fr[t].rconn].state = "fail"
                /\ RaisesConnectFailure(t) =>
                      /\ LeftFailed(fr[t].rconn)
                      /\ jobs_by_thread' = jobs_by_thread
                      /\ remote' = remote]_vars

\* Positions inside a _retry_and_handle call: an attempt, or the close and
\* the open of a reopen.
AttemptPcs == {"target", "query", "result"}

ReopenPcs == {"reopen_close", "reopen_open"}

\* Thread t's step enters a new _retry_and_handle call.
CallBegins(t) == pc[t] \notin AttemptPcs \cup ReopenPcs /\ pc'[t] = "target"

\* Attempts the call of thread t has started by the end of t's step; the
\* attempt of a cancel request starts in the step that ends it.
AttemptsMade(t) ==
    fr[t].attempts + (IF pc[t] = "target" /\ fr[t].op = "cancel_open" THEN 1 ELSE 0)

\* The failure the exception x came from.
Cause(x) == Exc(x.src, x.reason, None)

\* Thread t's step ends its call by raising from position set pcs, and not
\* on the deadline.
CallRaises(t, pcs) ==
    /\ pc[t] \in pcs
    /\ pc'[t] = "raised"
    /\ The(fr'[t].raisedExc).src # "RetryError"

\* Thread t's step ends its call with the retryable failure of an attempt.
RaisesRetryable(t) ==
    /\ CallRaises(t, AttemptPcs)
    /\ _is_retryable(Cause(The(fr'[t].raisedExc)))

\* C24 as stated: every call starts with an error counter and a backoff
\* sequence of its own, and with a retry count N >= 1 and no deadline
\* reached, a call all of whose attempts failed with retryable failures has
\* made exactly N + 1 attempts when it raises.
C24_ExactlyRetriesPlusOne ==
    [][\A t \in Threads :
          /\ CallBegins(t) =>
                fr'[t].error_count = 0 /\ fr'[t].attempts = 0 /\ fr'[t].sleeps = 0
          /\ (RaisesRetryable(t) \/ CallRaises(t, ReopenPcs)) =>
                AttemptsMade(t) = get_job_retries + 1]_vars

\* C24: every call starts with an error counter and a backoff sequence of
\* its own, whatever earlier calls and the calls of other threads have
\* counted; and with a retry count N >= 1 and no deadline reached, a call
\* that ends with the retryable failure of an attempt, every reopen before
\* it having succeeded, has made exactly N + 1 attempts and slept N times by
\* then.
C24_ExactlyRetriesPlusOneUnlessReopenFails ==
    [][\A t \in Threads :
          /\ CallBegins(t) =>
                fr'[t].error_count = 0 /\ fr'[t].attempts = 0 /\ fr'[t].sleeps = 0
          /\ RaisesRetryable(t) =>
                /\ AttemptsMade(t) = get_job_retries + 1
                /\ fr[t].sleeps = get_job_retries]_vars

\* The sweep is in the last allowed attempt of the cancel call for a
\* thread's second job id, after the first call had used up its own
\* attempts' failures, while that thread waits for a result.
C24_Witness ==
    \E t \in Threads : \E u \in Threads \ {t} :
        /\ fr[t].op = "cancel_open"
        /\ pc[t] = "target"
        /\ fr[t].idx = 2
        /\ fr[t].attempts = get_job_retries
        /\ fr[t].error_count = get_job_retries
        /\ pc[u] = "result"

\* Thread t is inside a _retry_and_handle call.
Retrying(t) == pc[t] \in AttemptPcs \cup ReopenPcs

\* Thread t is inside cancel_open.
Sweeping(t) == fr[t].op = "cancel_open" /\ ~Free(t)

\* C25: every _retry_and_handle call a thread is in ends, by returning or
\* by raising, whatever failures its attempts meet and with or without a
\* retry deadline; and every cancel_open sweep a thread is in ends, and the
\* thread does not hold the lock once it has.
C25_CallsAndSweepsEnd ==
    \A t \in Threads :
        /\ Retrying(t) ~> ~Retrying(t)
        /\ Sweeping(t) ~> (Free(t) /\ lock # Some(t))

\* A sweep has returned with the lock free, having closed the connection of
\* a thread that registered an id for every attempt its retries allow and
\* whose connection had been reopened up to its last handle.
C25_Witness ==
    \E t \in Threads : \E u \in Threads \ {t} :
        /\ fr[t].op = "cancel_open"
        /\ pc[t] = "returned"
        /\ lock = None
        /\ conn[u].state = "closed"
        /\ conn[u].made = MaxHandles
        /\ Len(jobs_by_thread[u]) = get_job_retries + 1

====
